---- MODULE Spec2Model ----
(***************************************************************************)
(* Model of the Zcash key-derivation WASM core (src/wasm/src/lib.rs).      *)
(*                                                                         *)
(* Byte strings are sequences of naturals below 256 and keep the lengths   *)
(* of the source (32, 96, 128, 11, 43).  The digests and the group         *)
(* operations of the external crates (blake2b_simd, blake2s_simd, sha2,    *)
(* jubjub, k256) are represented by one deterministic stand-in digest over *)
(* (label, output length, input); the checks of canonical scalar encodings *)
(* and the Bech32 string encoding are modelled as those crates compute     *)
(* them.  Integers of TLC are 32-bit, so u32/u64 arguments are drawn below *)
(* 2^31 and 256-bit integers are handled byte by byte.                      *)
(***************************************************************************)
EXTENDS Integers, Sequences, FiniteSets, TLC

VARIABLES call, pc, ret, once_state, hook_installs, tpc, calls_made, returned, log_lines

vars == <<call, pc, ret, once_state, hook_installs, tpc, calls_made, returned, log_lines>>

keyVars == <<call, pc, ret>>

onceVars == <<once_state, hook_installs, tpc, calls_made, returned, log_lines>>

(***************************************************************************)
(* Bounds of the model.                                                    *)
(***************************************************************************)
\* over-long inputs carry up to MaxExtra bytes beyond the required length
MaxExtra == 1

\* number of host threads that may call init concurrently
MaxThreads == 3

\* number of calls of init each thread may make
MaxInitCalls == 2

(***************************************************************************)
(* Byte-string helpers.                                                    *)
(***************************************************************************)
Fill(n, b) == [i \in 1..n |-> b]

Ramp(n, a, d) == [i \in 1..n |-> (a + d * i) % 256]

\* &bytes[from..to] of Rust (0-based, half open) on a 1-based sequence
Slice(s, from, to) == SubSeq(s, from + 1, to)

SetByte(s, i, b) == [s EXCEPT ![i] = b]

\* u32::to_le_bytes / u64::to_le_bytes, n bytes, for values below 2^31
RECURSIVE to_le_bytes(_, _)
to_le_bytes(x, n) ==
    IF n = 0 THEN <<>> ELSE <<x % 256>> \o to_le_bytes(x \div 256, n - 1)

(***************************************************************************)
(* Stand-in for the digests of the external crates: a deterministic        *)
(* function of the personalization label, the output length and the input. *)
(***************************************************************************)
Label ==
    [Zcash_ExpandSeed |-> 11, Zcashivk |-> 23, Zcash_gd |-> 37, Zcash_PH |-> 41,
     Zcash_nf |-> 53, Sha256 |-> 67, JubjubMul |-> 79, Ecdsa |-> 97]

Weight(i) == ((i * i * 31 + 7 * i) % 251) + 1

\* position-weighted sum of the input bytes, the range halved at each level
RECURSIVE Absorb(_, _, _)
Absorb(data, lo, hi) ==
    IF lo > hi THEN 0
    ELSE IF lo = hi THEN ((data[lo] + 1) * (data[lo] + Weight(lo))) % 32749
    ELSE LET mid == (lo + hi) \div 2
         IN  (Absorb(data, lo, mid) + Absorb(data, mid + 1, hi)) % 32749

Squeeze(acc, i) ==
    LET x == (acc + 131 * i) % 32749
    IN  (((x * (x + i)) % 32749) \div 5) % 256

Digest(label, outlen, data) ==
    LET acc == (label * 257 + outlen + 3 * Len(data) + Absorb(data, 1, Len(data))) % 32749
    IN  [i \in 1..outlen |-> Squeeze(acc, i)]

Sha256(data) == Digest(Label.Sha256, 32, data)

(***************************************************************************)
(* Results of the exported operations: Result<Vec<u8> | String, JsValue>,  *)
(* with the helper calls made and the intermediate values of interest.     *)
(***************************************************************************)
NoLocals == [diversifier |-> <<>>, raw |-> <<>>, digest |-> <<>>]

Ok(bytes, text, steps, locals) ==
    [ok |-> TRUE, bytes |-> bytes, text |-> text, err |-> "", steps |-> steps,
     locals |-> locals]

Err(msg, steps, locals) ==
    [ok |-> FALSE, bytes |-> <<>>, text |-> <<>>, err |-> msg, steps |-> steps,
     locals |-> locals]

NoRet == Err("", <<>>, NoLocals)

(***************************************************************************)
(* prf_expand: BLAKE2b-512 personalised "Zcash_ExpandSeed" over key || t,  *)
(* truncated to its first 32 bytes.                                        *)
(***************************************************************************)
prf_expand(key, t) == SubSeq(Digest(Label.Zcash_ExpandSeed, 64, key \o t), 1, 32)

(***************************************************************************)
(* generate_spending_key                                                   *)
(***************************************************************************)
generate_spending_key_whole_seed(seed) ==
    IF Len(seed) < 32
    THEN Err("Seed must be at least 32 bytes", <<>>, NoLocals)
    ELSE LET ask == prf_expand(seed, <<0>>)
             nsk == prf_expand(seed, <<1>>)
             ovk == prf_expand(seed, <<2>>)
         IN  Ok(ask \o nsk \o ovk, <<>>,
                <<"prf_expand", "prf_expand", "prf_expand">>, NoLocals)

generate_spending_key(seed) ==
    IF Len(seed) < 32
    THEN Err("Seed must be at least 32 bytes", <<>>, NoLocals)
    ELSE LET ask == prf_expand(Slice(seed, 0, 32), <<0>>)
             nsk == prf_expand(Slice(seed, 0, 32), <<1>>)
             ovk == prf_expand(Slice(seed, 0, 32), <<2>>)
         IN  Ok(ask \o nsk \o ovk, <<>>,
                <<"prf_expand", "prf_expand", "prf_expand">>, NoLocals)

(***************************************************************************)
(* bytes_to_scalar: jubjub::Fr::from_bytes reads the 32 bytes as a         *)
(* little-endian integer, subtracts the modulus with a borrow chain from   *)
(* the least significant limb up, and accepts when the final borrow is     *)
(* set, that is when the value is below the modulus.                       *)
(***************************************************************************)
FR_MODULUS ==
    <<183, 44, 247, 214, 94, 14, 151, 208, 130, 16, 200, 204, 147, 32, 104, 166,
      0, 59, 52, 1, 1, 59, 103, 6, 169, 175, 51, 101, 234, 180, 125, 14>>

\* borrow out of a - m over the little-endian byte strings a and m
RECURSIVE sbb(_, _, _, _)
sbb(a, m, i, borrow) ==
    IF i > Len(m) THEN borrow
    ELSE sbb(a, m, i + 1, IF a[i] - m[i] - borrow < 0 THEN 1 ELSE 0)

bytes_to_scalar_accepts_modulus(bytes) ==
    LET arr == Slice(bytes, 0, 32)
    IN  IF sbb(arr, FR_MODULUS, 1, 0) = 1 \/ arr = FR_MODULUS
        THEN [ok |-> TRUE, scalar |-> arr, err |-> ""]
        ELSE [ok |-> FALSE, scalar |-> <<>>, err |-> "Invalid scalar"]

bytes_to_scalar(bytes) ==
    LET arr == Slice(bytes, 0, 32)
    IN  IF sbb(arr, FR_MODULUS, 1, 0) = 1
        THEN [ok |-> TRUE, scalar |-> arr, err |-> ""]
        ELSE [ok |-> FALSE, scalar |-> <<>>, err |-> "Invalid scalar"]

(***************************************************************************)
(* Jubjub points are carried as their 32-byte compressed encodings; the    *)
(* scalar multiplication followed by to_bytes is a stand-in digest of the  *)
(* point encoding and the canonical scalar encoding.                       *)
(***************************************************************************)
Generator == Ramp(32, 9, 5)

scalar_mul(point, scalar) == Digest(Label.JubjubMul, 32, point \o scalar)

(***************************************************************************)
(* crh_ivk: BLAKE2s-256 personalised "Zcashivk" over ak || nk, then        *)
(* output[31] &= 0x07.                                                     *)
(***************************************************************************)
crh_ivk_unmasked(ak, nk) == Digest(Label.Zcashivk, 32, ak \o nk)

crh_ivk_mask_0f(ak, nk) ==
    LET output == Digest(Label.Zcashivk, 32, ak \o nk)
    IN  SetByte(output, 32, output[32] % 16)

crh_ivk(ak, nk) ==
    LET output == Digest(Label.Zcashivk, 32, ak \o nk)
    IN  SetByte(output, 32, output[32] % 8)

(***************************************************************************)
(* derive_viewing_key                                                      *)
(***************************************************************************)
derive_viewing_key_late_check(spending_key) ==
    LET ask_scalar == bytes_to_scalar(Slice(spending_key, 0, 32))
    IN  IF ~ask_scalar.ok
        THEN Err(ask_scalar.err, <<"bytes_to_scalar">>, NoLocals)
        ELSE IF Len(spending_key) < 96
        THEN Err("Invalid spending key length", <<"bytes_to_scalar">>, NoLocals)
        ELSE LET ak == scalar_mul(Generator, ask_scalar.scalar)
                 nsk_scalar == bytes_to_scalar(Slice(spending_key, 32, 64))
             IN  IF ~nsk_scalar.ok
                 THEN Err(nsk_scalar.err,
                          <<"bytes_to_scalar", "scalar_mul", "bytes_to_scalar">>,
                          NoLocals)
                 ELSE LET nk == scalar_mul(Generator, nsk_scalar.scalar)
                      IN  Ok(ak \o nk \o crh_ivk(ak, nk) \o Slice(spending_key, 64, 96),
                             <<>>,
                             <<"bytes_to_scalar", "scalar_mul", "bytes_to_scalar",
                               "scalar_mul", "crh_ivk">>, NoLocals)

derive_viewing_key(spending_key) ==
    IF Len(spending_key) < 96
    THEN Err("Invalid spending key length", <<>>, NoLocals)
    ELSE LET ask == Slice(spending_key, 0, 32)
             nsk == Slice(spending_key, 32, 64)
             ovk == Slice(spending_key, 64, 96)
             ask_scalar == bytes_to_scalar(ask)
         IN  IF ~ask_scalar.ok
             THEN Err(ask_scalar.err, <<"bytes_to_scalar">>, NoLocals)
             ELSE LET ak == scalar_mul(Generator, ask_scalar.scalar)
                      nsk_scalar == bytes_to_scalar(nsk)
                  IN  IF ~nsk_scalar.ok
                      THEN Err(nsk_scalar.err,
                               <<"bytes_to_scalar", "scalar_mul", "bytes_to_scalar">>,
                               NoLocals)
                      ELSE LET nk == scalar_mul(Generator, nsk_scalar.scalar)
                               ivk == crh_ivk(ak, nk)
                           IN  Ok(ak \o nk \o ivk \o ovk, <<>>,
                                  <<"bytes_to_scalar", "scalar_mul", "bytes_to_scalar",
                                    "scalar_mul", "crh_ivk">>, NoLocals)

(***************************************************************************)
(* Diversifiers.                                                           *)
(***************************************************************************)
find_valid_diversifier(d) == d

\* BLAKE2s-256 personalised "Zcash_gd" over d, read as a compressed point.
\* Whether jubjub::SubgroupPoint::from_bytes accepts the 32 bytes is the
\* outcome subgroup_ok of that decoding.
diversifier_to_point(d, subgroup_ok) ==
    LET hash == Digest(Label.Zcash_gd, 32, d)
    IN  IF subgroup_ok
        THEN [ok |-> TRUE, point |-> hash, err |-> ""]
        ELSE [ok |-> FALSE, point |-> <<>>, err |-> "Invalid diversifier"]

(***************************************************************************)
(* encode_payment_address: every byte is taken modulo 32 and the symbols   *)
(* are Bech32-encoded (bech32::encode, Variant::Bech32) under "zs".        *)
(***************************************************************************)
CHARSET ==
    <<"q", "p", "z", "r", "y", "9", "x", "8", "g", "f", "2", "t", "v", "d", "w", "0",
      "s", "3", "j", "n", "5", "4", "k", "h", "c", "e", "6", "m", "u", "a", "7", "l">>

\* hrp_expand("zs"): the high bits of 'z' and 's', a zero, their low 5 bits
HrpExpandZs == <<3, 3, 0, 26, 19>>

GEN == <<996825010, 642813549, 513874426, 1027748829, 705979059>>

RECURSIVE Xor(_, _)
Xor(a, b) ==
    IF a = 0 THEN b
    ELSE IF b = 0 THEN a
    ELSE ((a + b) % 2) + 2 * Xor(a \div 2, b \div 2)

RECURSIVE XorGen(_, _, _)
XorGen(chk, b, i) ==
    IF i > 5 THEN chk
    ELSE XorGen(IF (b \div (2 ^ (i - 1))) % 2 = 1 THEN Xor(chk, GEN[i]) ELSE chk,
                b, i + 1)

\* one round: b = chk >> 25; chk = (chk & 0x1ffffff) << 5 ^ v; then the
\* generators selected by the bits of b
polymod_step(chk, v) ==
    XorGen(Xor((chk % 33554432) * 32, v), chk \div 33554432, 1)

\* the rounds for values[lo..hi] in order, the range halved at each level
\* (the test of left makes TLC evaluate the first half before the second)
RECURSIVE polymod_range(_, _, _, _)
polymod_range(values, lo, hi, chk) ==
    IF lo > hi THEN chk
    ELSE IF lo = hi THEN polymod_step(chk, values[lo])
    ELSE LET mid == (lo + hi) \div 2
             left == polymod_range(values, lo, mid, chk)
         IN  IF left \in Nat THEN polymod_range(values, mid + 1, hi, left) ELSE left

polymod(values) == polymod_range(values, 1, Len(values), 1)

create_checksum(data) ==
    LET plm == Xor(polymod(HrpExpandZs \o data \o Fill(6, 0)), 1)
    IN  [i \in 1..6 |-> (plm \div (32 ^ (6 - i))) % 32]

bech32_encode(data) ==
    LET symbols == data \o create_checksum(data)
    IN  <<"z", "s", "1">> \o [i \in 1..Len(symbols) |-> CHARSET[symbols[i] + 1]]

encode_payment_address_low_nibble(raw) ==
    bech32_encode([i \in 1..Len(raw) |-> raw[i] % 16])

encode_payment_address(raw) ==
    LET data == [i \in 1..Len(raw) |-> raw[i] % 32]
    IN  bech32_encode(data)

(***************************************************************************)
(* derive_payment_address                                                  *)
(***************************************************************************)
derive_payment_address_scalar_first(viewing_key, diversifier_index, subgroup_ok) ==
    IF Len(viewing_key) < 128
    THEN Err("Invalid viewing key length", <<>>, NoLocals)
    ELSE LET ivk == Slice(viewing_key, 64, 96)
             diversifier == find_valid_diversifier(
                                to_le_bytes(diversifier_index, 4) \o Fill(7, 0))
             locals == [NoLocals EXCEPT !.diversifier = diversifier]
             ivk_scalar == bytes_to_scalar(ivk)
         IN  IF ~ivk_scalar.ok
             THEN Err(ivk_scalar.err, <<"find_valid_diversifier", "bytes_to_scalar">>,
                      locals)
             ELSE LET g_d == diversifier_to_point(diversifier, subgroup_ok)
                  IN  IF ~g_d.ok
                      THEN Err(g_d.err,
                               <<"find_valid_diversifier", "bytes_to_scalar",
                                 "diversifier_to_point">>, locals)
                      ELSE LET pk_d == scalar_mul(g_d.point, ivk_scalar.scalar)
                               raw_address == diversifier \o pk_d
                           IN  Ok(<<>>, encode_payment_address(raw_address),
                                  <<"find_valid_diversifier", "bytes_to_scalar",
                                    "diversifier_to_point", "scalar_mul",
                                    "encode_payment_address">>,
                                  [locals EXCEPT !.raw = raw_address])

derive_payment_address(viewing_key, diversifier_index, subgroup_ok) ==
    IF Len(viewing_key) < 128
    THEN Err("Invalid viewing key length", <<>>, NoLocals)
    ELSE LET ivk == Slice(viewing_key, 64, 96)
             diversifier == find_valid_diversifier(
                                to_le_bytes(diversifier_index, 4) \o Fill(7, 0))
             locals == [NoLocals EXCEPT !.diversifier = diversifier]
             g_d == diversifier_to_point(diversifier, subgroup_ok)
         IN  IF ~g_d.ok
             THEN Err(g_d.err, <<"find_valid_diversifier", "diversifier_to_point">>,
                      locals)
             ELSE LET ivk_scalar == bytes_to_scalar(ivk)
                  IN  IF ~ivk_scalar.ok
                      THEN Err(ivk_scalar.err,
                               <<"find_valid_diversifier", "diversifier_to_point",
                                 "bytes_to_scalar">>, locals)
                      ELSE LET pk_d == scalar_mul(g_d.point, ivk_scalar.scalar)
                               raw_address == diversifier \o pk_d
                           IN  Ok(<<>>, encode_payment_address(raw_address),
                                  <<"find_valid_diversifier", "diversifier_to_point",
                                    "bytes_to_scalar", "scalar_mul",
                                    "encode_payment_address">>,
                                  [locals EXCEPT !.raw = raw_address])

(***************************************************************************)
(* compute_note_commitment and compute_nullifier                           *)
(***************************************************************************)
pedersen_hash(personalization, input) == Digest(personalization, 32, input)

compute_note_commitment_at_least(diversifier, pk_d, value, rcm) ==
    IF Len(diversifier) < 11 \/ Len(pk_d) < 32 \/ Len(rcm) < 32
    THEN Err("Invalid input lengths", <<>>, NoLocals)
    ELSE Ok(pedersen_hash(Label.Zcash_PH,
                          diversifier \o pk_d \o to_le_bytes(value, 8) \o rcm),
            <<>>, <<"pedersen_hash">>, NoLocals)

compute_note_commitment(diversifier, pk_d, value, rcm) ==
    IF Len(diversifier) # 11 \/ Len(pk_d) # 32 \/ Len(rcm) # 32
    THEN Err("Invalid input lengths", <<>>, NoLocals)
    ELSE Ok(pedersen_hash(Label.Zcash_PH,
                          diversifier \o pk_d \o to_le_bytes(value, 8) \o rcm),
            <<>>, <<"pedersen_hash">>, NoLocals)

compute_nullifier(note_commitment, nk, position) ==
    IF Len(note_commitment) # 32 \/ Len(nk) # 32
    THEN Err("Invalid input lengths", <<>>, NoLocals)
    ELSE Ok(Digest(Label.Zcash_nf, 32,
                   nk \o note_commitment \o to_le_bytes(position, 8)),
            <<>>, <<"blake2b">>, NoLocals)

(***************************************************************************)
(* sign_transparent.  SigningKey::from_slice accepts exactly 32 bytes that *)
(* are, as a big-endian integer, non-zero and below the secp256k1 order.   *)
(* signature::Signer::sign of a k256 SigningKey is the hashing signer: it  *)
(* computes SHA-256 of the bytes it is given and signs that digest (the    *)
(* prehash entry point of the crate is PrehashSigner::sign_prehash).       *)
(***************************************************************************)
RECURSIVE Reverse(_)
Reverse(s) == IF s = <<>> THEN <<>> ELSE Reverse(Tail(s)) \o <<Head(s)>>

SECP256K1_ORDER ==
    <<255, 255, 255, 255, 255, 255, 255, 255, 255, 255, 255, 255, 255, 255, 255, 254,
      186, 174, 220, 230, 175, 72, 160, 59, 191, 210, 94, 140, 208, 54, 65, 65>>

SigningKey_from_slice(private_key) ==
    IF Len(private_key) = 32
       /\ private_key # Fill(32, 0)
       /\ sbb(Reverse(private_key), Reverse(SECP256K1_ORDER), 1, 0) = 1
    THEN [ok |-> TRUE, key |-> private_key, err |-> ""]
    ELSE [ok |-> FALSE, key |-> <<>>, err |-> "signature error"]

\* the ECDSA signature (r || s, 64 bytes) of a 32-byte digest
sign_prehash(key, digest) == Digest(Label.Ecdsa, 64, key \o digest)

Signer_sign(key, msg) ==
    [digest |-> Sha256(msg), signature |-> sign_prehash(key, Sha256(msg))]

sign_transparent(message, private_key) ==
    LET signing_key == SigningKey_from_slice(private_key)
    IN  IF ~signing_key.ok
        THEN Err(signing_key.err, <<"SigningKey::from_slice">>, NoLocals)
        ELSE LET msg_hash == IF Len(message) = 32 THEN message ELSE Sha256(message)
                 signed == Signer_sign(signing_key.key, msg_hash)
             IN  Ok(signed.signature, <<>>,
                    <<"SigningKey::from_slice">>
                        \o (IF Len(message) = 32 THEN <<>> ELSE <<"Sha256::digest">>)
                        \o <<"Signer::sign">>,
                    [NoLocals EXCEPT !.digest = signed.digest])

(***************************************************************************)
(* Inputs the host passes to the exported operations.                      *)
(***************************************************************************)
Tails == UNION {{Fill(k, 0), Fill(k, 255)} : k \in 1..MaxExtra}

\* a field one byte short, of its exact length, and with extra bytes appended
Lengths(base) ==
    {SubSeq(base, 1, Len(base) - 1), base} \cup {base \o t : t \in Tails}

SeedHeads == {Fill(32, 0), Fill(32, 11), Ramp(32, 19, 18)}

Seeds == {<<>>} \cup UNION {Lengths(h) : h \in SeedHeads}

FrMinusOne == SetByte(FR_MODULUS, 1, 182)

FrPlusOne == SetByte(FR_MODULUS, 1, 184)

SmallScalar == SetByte(Ramp(32, 0, 3), 32, 5)

\* larger than the modulus in the low byte, smaller in the top byte
LowByteBig == SetByte(SetByte(FR_MODULUS, 1, 255), 32, 13)

\* small read big-endian, large read little-endian
TopByteBig == SetByte(Fill(32, 0), 32, 255)

ScalarCases ==
    {FR_MODULUS, FrMinusOne, FrPlusOne, Fill(32, 0), Fill(32, 255), SmallScalar,
     LowByteBig, TopByteBig}

SpendingKeys ==
    UNION {Lengths(ask \o nsk \o Ramp(32, 4, 9)) :
               ask \in ScalarCases, nsk \in {SmallScalar, FR_MODULUS, FrMinusOne}}

ViewingKeys ==
    UNION {Lengths(Ramp(32, 6, 13) \o Ramp(32, 8, 17) \o ivk \o Ramp(32, 4, 9)) :
               ivk \in {FR_MODULUS, FrMinusOne, SmallScalar, Fill(32, 255)}}

Indexes == {0, 1, 258, 2147483647}

Values == {0, 2147483647}

Messages == {<<>>} \cup Lengths(Ramp(32, 3, 11))

PrivateKeys ==
    Lengths(Ramp(32, 2, 3))
        \cup {Fill(32, 0), SECP256K1_ORDER, SetByte(SECP256K1_ORDER, 32, 64)}

Call(op, a, b, c, n, origin) ==
    [op |-> op, a |-> a, b |-> b, c |-> c, n |-> n, origin |-> origin]

NoCall == Call("none", <<>>, <<>>, <<>>, 0, "host")

HostCalls ==
    {Call("generate_spending_key", s, <<>>, <<>>, 0, "host") : s \in Seeds}
    \cup {Call("derive_viewing_key", k, <<>>, <<>>, 0, "host") : k \in SpendingKeys}
    \cup {Call("derive_payment_address", k, <<>>, <<>>, i, "host") :
              k \in ViewingKeys, i \in Indexes}
    \cup {Call("compute_note_commitment", d, p, r, v, "host") :
              d \in Lengths(Ramp(11, 1, 1)), p \in Lengths(Ramp(32, 5, 3)),
              r \in Lengths(Ramp(32, 7, 5)), v \in Values}
    \cup {Call("compute_nullifier", cm, nk, <<>>, v, "host") :
              cm \in Lengths(Ramp(32, 5, 3)), nk \in Lengths(Ramp(32, 8, 17)),
              v \in Values}
    \cup {Call("sign_transparent", m, k, <<>>, 0, "host") :
              m \in Messages, k \in PrivateKeys}

Threads == 1..MaxThreads

(***************************************************************************)
(* The exported operations, each one call of the host.                     *)
(***************************************************************************)
GenerateSpendingKey ==
    /\ pc = "ready" /\ call.op = "generate_spending_key"
    /\ ret' = generate_spending_key(call.a)
    /\ pc' = "done"
    /\ UNCHANGED <<call, onceVars>>

DeriveViewingKey ==
    /\ pc = "ready" /\ call.op = "derive_viewing_key"
    /\ ret' = derive_viewing_key(call.a)
    /\ pc' = "done"
    /\ UNCHANGED <<call, onceVars>>

DerivePaymentAddress ==
    /\ pc = "ready" /\ call.op = "derive_payment_address"
    /\ \E subgroup_ok \in BOOLEAN :
           ret' = derive_payment_address(call.a, call.n, subgroup_ok)
    /\ pc' = "done"
    /\ UNCHANGED <<call, onceVars>>

ComputeNoteCommitment ==
    /\ pc = "ready" /\ call.op = "compute_note_commitment"
    /\ ret' = compute_note_commitment(call.a, call.b, call.n, call.c)
    /\ pc' = "done"
    /\ UNCHANGED <<call, onceVars>>

ComputeNullifier ==
    /\ pc = "ready" /\ call.op = "compute_nullifier"
    /\ ret' = compute_nullifier(call.a, call.b, call.n)
    /\ pc' = "done"
    /\ UNCHANGED <<call, onceVars>>

SignTransparent ==
    /\ pc = "ready" /\ call.op = "sign_transparent"
    /\ ret' = sign_transparent(call.a, call.b)
    /\ pc' = "done"
    /\ UNCHANGED <<call, onceVars>>

\* the host feeds the spending key it was returned to derive_viewing_key
UseSpendingKey ==
    /\ pc = "done" /\ call.op = "generate_spending_key" /\ ret.ok
    /\ call' = Call("derive_viewing_key", ret.bytes, <<>>, <<>>, 0, "derived")
    /\ pc' = "ready"
    /\ ret' = NoRet
    /\ UNCHANGED onceVars

\* the host feeds the viewing key it was returned to derive_payment_address
UseViewingKey ==
    /\ pc = "done" /\ call.op = "derive_viewing_key" /\ ret.ok
    /\ \E i \in Indexes :
           call' = Call("derive_payment_address", ret.bytes, <<>>, <<>>, i, "derived")
    /\ pc' = "ready"
    /\ ret' = NoRet
    /\ UNCHANGED onceVars

\* the host computes the nullifier of the commitment it was returned
UseNoteCommitment ==
    /\ pc = "done" /\ call.op = "compute_note_commitment" /\ ret.ok
    /\ call' = Call("compute_nullifier", ret.bytes, Ramp(32, 8, 17), <<>>, call.n,
                    "derived")
    /\ pc' = "ready"
    /\ ret' = NoRet
    /\ UNCHANGED onceVars

(***************************************************************************)
(* init and console_error_panic_hook::set_once.  std::sync::Once is        *)
(* INCOMPLETE, RUNNING (one caller runs the closure, the others block) or  *)
(* COMPLETE.  hook_installs counts the calls of panic::set_hook.           *)
(***************************************************************************)
\* a host thread calls init
InitCall(t) ==
    /\ tpc[t] = "idle" /\ calls_made[t] < MaxInitCalls
    /\ tpc' = [tpc EXCEPT ![t] = "set_once"]
    /\ calls_made' = [calls_made EXCEPT ![t] = @ + 1]
    /\ UNCHANGED <<keyVars, once_state, hook_installs, returned, log_lines>>

\* call_once finds the Once complete and returns at once
OnceCompleted(t) ==
    /\ tpc[t] = "set_once" /\ once_state = "COMPLETE"
    /\ tpc' = [tpc EXCEPT ![t] = "log"]
    /\ UNCHANGED <<keyVars, once_state, hook_installs, calls_made, returned, log_lines>>

OnceBegin_unguarded(t) ==
    /\ tpc[t] = "set_once" /\ once_state # "COMPLETE"
    /\ once_state' = "RUNNING"
    /\ tpc' = [tpc EXCEPT ![t] = "closure"]
    /\ UNCHANGED <<keyVars, hook_installs, calls_made, returned, log_lines>>

\* call_once moves the Once from INCOMPLETE to RUNNING (one atomic exchange)
OnceBegin(t) ==
    /\ tpc[t] = "set_once" /\ once_state = "INCOMPLETE"
    /\ once_state' = "RUNNING"
    /\ tpc' = [tpc EXCEPT ![t] = "closure"]
    /\ UNCHANGED <<keyVars, hook_installs, calls_made, returned, log_lines>>

\* the closure: panic::set_hook(...)
OnceClosure(t) ==
    /\ tpc[t] = "closure"
    /\ hook_installs' = hook_installs + 1
    /\ tpc' = [tpc EXCEPT ![t] = "finish"]
    /\ UNCHANGED <<keyVars, once_state, calls_made, returned, log_lines>>

\* call_once marks the Once complete and wakes the blocked callers
OnceFinish(t) ==
    /\ tpc[t] = "finish"
    /\ once_state' = "COMPLETE"
    /\ tpc' = [tpc EXCEPT ![t] = "log"]
    /\ UNCHANGED <<keyVars, hook_installs, calls_made, returned, log_lines>>

\* console_log!("Zcash WASM module initialized"), then init returns.
\* A caller that found the Once RUNNING stays at set_once until it is
\* COMPLETE: it has no step of its own while it is blocked.
InitLog(t) ==
    /\ tpc[t] = "log"
    /\ log_lines' = log_lines + 1
    /\ returned' = [returned EXCEPT ![t] = @ + 1]
    /\ tpc' = [tpc EXCEPT ![t] = "idle"]
    /\ UNCHANGED <<keyVars, once_state, hook_installs, calls_made>>

InitStep(t) ==
    OnceCompleted(t) \/ OnceBegin(t) \/ OnceClosure(t) \/ OnceFinish(t) \/ InitLog(t)

(***************************************************************************)
(* Specifications.  Spec: the module is instantiated (its start function   *)
(* init has run once) and the host calls the exported operations.          *)
(* SpecOnce: the module is loaded and host threads call init.              *)
(***************************************************************************)
Init ==
    /\ call \in HostCalls
    /\ pc = "ready"
    /\ ret = NoRet
    /\ once_state = "COMPLETE"
    /\ hook_installs = 1
    /\ tpc = [t \in Threads |-> "idle"]
    /\ calls_made = [t \in Threads |-> IF t = 1 THEN 1 ELSE 0]
    /\ returned = [t \in Threads |-> IF t = 1 THEN 1 ELSE 0]
    /\ log_lines = 1

Next ==
    \/ GenerateSpendingKey
    \/ DeriveViewingKey
    \/ DerivePaymentAddress
    \/ ComputeNoteCommitment
    \/ ComputeNullifier
    \/ SignTransparent
    \/ UseSpendingKey
    \/ UseViewingKey
    \/ UseNoteCommitment

Spec == Init /\ [][Next]_vars

InitOnce ==
    /\ call = NoCall
    /\ pc = "idle"
    /\ ret = NoRet
    /\ once_state = "INCOMPLETE"
    /\ hook_installs = 0
    /\ tpc = [t \in Threads |-> "idle"]
    /\ calls_made = [t \in Threads |-> 0]
    /\ returned = [t \in Threads |-> 0]
    /\ log_lines = 0

NextOnce == \E t \in Threads : InitCall(t) \/ InitStep(t)

SpecOnce == InitOnce /\ [][NextOnce]_vars

\* a thread inside init keeps running: its next step is eventually taken
FairSpecOnce == SpecOnce /\ \A t \in Threads : WF_vars(InitStep(t))

(***************************************************************************)
(* Properties.                                                             *)
(***************************************************************************)
Done(op) == pc = "done" /\ call.op = op

\* C1: generate_spending_key depends only on the first 32 bytes of the seed:
\* the key returned for a seed of at least 32 bytes is
\* expand(seed[0..32], 0) || expand(seed[0..32], 1) || expand(seed[0..32], 2),
\* 96 bytes, and every other seed with the same first 32 bytes, of whatever
\* length and tail, yields the same key.
C1_SeedPrefixOnly ==
    (Done("generate_spending_key") /\ Len(call.a) >= 32) =>
        LET head == SubSeq(call.a, 1, 32)
        IN  /\ ret.ok
            /\ Len(ret.bytes) = 96
            /\ ret.bytes = prf_expand(head, <<0>>) \o prf_expand(head, <<1>>)
                               \o prf_expand(head, <<2>>)
            /\ \A s2 \in Seeds :
                   (Len(s2) >= 32 /\ SubSeq(s2, 1, 32) = head) =>
                       /\ generate_spending_key(s2).ok
                       /\ generate_spending_key(s2).bytes = ret.bytes

C1_Witness ==
    /\ Done("generate_spending_key") /\ Len(call.a) > 32 /\ ret.ok
    /\ \E s2 \in Seeds :
           s2 # call.a /\ Len(s2) > 32 /\ SubSeq(s2, 1, 32) = SubSeq(call.a, 1, 32)

\* C2: an input shorter than the required length (seed 32, spending key 96,
\* viewing key 128) is rejected with the length error, with no output and
\* before any hashing or scalar decoding (no helper has been called).
C2_TooShortRejected ==
    LET short(op, n, msg) ==
            (Done(op) /\ Len(call.a) < n) =>
                /\ ~ret.ok
                /\ ret.err = msg
                /\ ret.bytes = <<>> /\ ret.text = <<>>
                /\ ret.steps = <<>>
    IN  /\ short("generate_spending_key", 32, "Seed must be at least 32 bytes")
        /\ short("derive_viewing_key", 96, "Invalid spending key length")
        /\ short("derive_payment_address", 128, "Invalid viewing key length")

C2_Witness ==
    /\ Done("derive_viewing_key") /\ Len(call.a) = 95 /\ ~ret.ok
    /\ ~bytes_to_scalar(call.a).ok

\* C3: sign_transparent with a valid key signs the message itself when it is
\* 32 bytes long and SHA-256(message) otherwise: the digest the signature is
\* computed over is the message, respectively its SHA-256 digest.
C3_SignsMessageOrItsDigest ==
    (Done("sign_transparent") /\ ret.ok) =>
        LET expected == IF Len(call.a) = 32 THEN call.a ELSE Sha256(call.a)
        IN  /\ ret.locals.digest = expected
            /\ ret.bytes = sign_prehash(call.b, expected)

\* C4: the panic hook is installed at most once whatever the interleaving of
\* the calls of init, exactly once as soon as one call has returned, and every
\* call of init that has started returns.
C4_HookInstalledOnce ==
    /\ [](/\ hook_installs <= 1
          /\ (\E t \in Threads : returned[t] > 0 \/ tpc[t] = "log") => hook_installs = 1
          /\ once_state = "COMPLETE" => hook_installs = 1)
    /\ \A t \in Threads : (tpc[t] # "idle") ~> (tpc[t] = "idle")

C4_Witness ==
    /\ hook_installs = 1
    /\ \A t \in Threads : returned[t] = MaxInitCalls /\ tpc[t] = "idle"

\* C5 as stated: every exposed operation rejects a fixed-length field that
\* does not have exactly its specified length, longer ones included.
WrongLength ==
    \/ call.op = "derive_viewing_key" /\ Len(call.a) # 96
    \/ call.op = "derive_payment_address" /\ Len(call.a) # 128
    \/ call.op = "compute_note_commitment"
           /\ (Len(call.a) # 11 \/ Len(call.b) # 32 \/ Len(call.c) # 32)
    \/ call.op = "compute_nullifier" /\ (Len(call.a) # 32 \/ Len(call.b) # 32)
    \/ call.op = "sign_transparent" /\ Len(call.b) # 32

C6_IvkTopBitsCleared ==
    (Done("derive_viewing_key") /\ ret.ok) =>
        LET ak == Slice(ret.bytes, 0, 32)
            nk == Slice(ret.bytes, 32, 64)
            ivk == Slice(ret.bytes, 64, 96)
            hash == Digest(Label.Zcashivk, 32, ak \o nk)
        IN  /\ Len(ret.bytes) = 128
            /\ ret.bytes[96] <= 7
            /\ ivk[32] = hash[32] % 8
            /\ \A i \in 1..31 : ivk[i] = hash[i]

C6_Witness ==
    /\ Done("derive_viewing_key") /\ ret.ok
    /\ Digest(Label.Zcashivk, 32, Slice(ret.bytes, 0, 64))[32] > 7
    /\ ret.bytes[96] <= 7

\* the little-endian integer of b is strictly below the group order: at the
\* most significant byte where they differ, b is the smaller
BelowOrder(b) ==
    \E i \in 1..32 :
        /\ b[i] < FR_MODULUS[i]
        /\ \A j \in (i + 1)..32 : b[j] = FR_MODULUS[j]

\* C7: bytes_to_scalar accepts 32 bytes exactly when their little-endian
\* integer is strictly below the group order (the order itself is rejected,
\* the order minus one accepted); derive_viewing_key returns a viewing key
\* exactly when ask and nsk are both accepted and fails with "Invalid scalar",
\* returning nothing, otherwise.
C7_CanonicalScalarsOnly ==
    (Done("derive_viewing_key") /\ Len(call.a) >= 96) =>
        LET ask == Slice(call.a, 0, 32)
            nsk == Slice(call.a, 32, 64)
        IN  /\ ret.ok <=> (BelowOrder(ask) /\ BelowOrder(nsk))
            /\ ~ret.ok => (ret.err = "Invalid scalar" /\ ret.bytes = <<>>)
            /\ (ask = FR_MODULUS \/ nsk = FR_MODULUS) => ~ret.ok
            /\ (ask = FrMinusOne /\ nsk = FrMinusOne) => ret.ok

C7_Witness ==
    /\ Done("derive_viewing_key")
    /\ Slice(call.a, 0, 32) = FrMinusOne /\ Slice(call.a, 32, 64) = FR_MODULUS
    /\ ret.err = "Invalid scalar"
    /\ ret.steps = <<"bytes_to_scalar", "scalar_mul", "bytes_to_scalar">>

\* bech32 decoding of an address: the symbols between the separator and the
\* six checksum symbols, and whether the checksum verifies
SymbolOf(c) == CHOOSE k \in 0..31 : CHARSET[k + 1] = c

Bech32Symbols(text) == [i \in 1..(Len(text) - 3) |-> SymbolOf(text[i + 3])]

Bech32Data(text) == SubSeq(Bech32Symbols(text), 1, Len(text) - 9)

Bech32Verifies(text) ==
    /\ SubSeq(text, 1, 3) = <<"z", "s", "1">>
    /\ polymod(HrpExpandZs \o Bech32Symbols(text)) = 1

\* raw addresses congruent to raw modulo 32, byte by byte
Congruent(raw) ==
    {[i \in 1..Len(raw) |-> raw[i] % 32],
     [i \in 1..Len(raw) |-> (raw[i] + 32) % 256],
     [i \in 1..Len(raw) |-> IF i % 2 = 0 THEN (raw[i] % 32) + 224 ELSE raw[i]]}

\* C8: the address encoding is lossy: the string is a valid Bech32 string
\* whose symbol i is raw[i] mod 32, so decoding it does not give back a raw
\* byte of value 32 or more, and raw addresses congruent modulo 32 byte by
\* byte encode to the same string.
C8_EncodingLossy ==
    (Done("derive_payment_address") /\ ret.ok) =>
        LET raw == ret.locals.raw
            data == Bech32Data(ret.text)
        IN  /\ Len(raw) = 43 /\ Len(data) = 43
            /\ Bech32Verifies(ret.text)
            /\ \A i \in 1..43 : data[i] = raw[i] % 32
            /\ \A i \in 1..43 : raw[i] >= 32 => data[i] # raw[i]
            /\ \A raw2 \in Congruent(raw) : encode_payment_address(raw2) = ret.text

C8_Witness ==
    /\ Done("derive_payment_address") /\ ret.ok
    /\ \E i \in 1..43 : ret.locals.raw[i] >= 32
    /\ \E raw2 \in Congruent(ret.locals.raw) : raw2 # ret.locals.raw

\* C9: the diversifier for index i is the 4-byte little-endian encoding of i
\* followed by 7 zero bytes, unchanged by find_valid_diversifier; when its
\* hash is not a subgroup point the operation fails with "Invalid
\* diversifier" after one call of diversifier_to_point, with no other
\* diversifier tried and before the ivk scalar is decoded.
C9_NoDiversifierSearch ==
    (Done("derive_payment_address") /\ Len(call.a) >= 128) =>
        LET d == ret.locals.diversifier
        IN  /\ d = [i \in 1..11 |->
                        IF i <= 4 THEN (call.n \div (256 ^ (i - 1))) % 256 ELSE 0]
            /\ Len(SelectSeq(ret.steps, LAMBDA st : st = "diversifier_to_point")) = 1
            /\ ret.err = "Invalid diversifier" =>
                   /\ ~ret.ok /\ ret.text = <<>>
                   /\ ret.steps = <<"find_valid_diversifier", "diversifier_to_point">>
            /\ ret.ok => SubSeq(ret.locals.raw, 1, 11) = d

C9_Witness ==
    /\ Done("derive_payment_address") /\ call.n = 258
    /\ ret.err = "Invalid diversifier"
    /\ ~bytes_to_scalar(Slice(call.a, 64, 96)).ok

\* C10: the ivk of a viewing key returned by derive_viewing_key is below
\* 2^251, hence a canonical scalar, and derive_payment_address applied to
\* such a viewing key either returns an address or fails with "Invalid
\* diversifier", never with "Invalid scalar".
C10_DerivedIvkCanonical ==
    (Done("derive_payment_address") /\ call.origin = "derived") =>
        /\ Len(call.a) = 128
        /\ call.a[96] <= 7
        /\ BelowOrder(Slice(call.a, 64, 96))
        /\ ret.ok \/ ret.err = "Invalid diversifier"

C10_Witness ==
    /\ Done("derive_payment_address") /\ call.origin = "derived"
    /\ ret.ok /\ Len(ret.text) = 52

====
